---- MODULE Spec2Model ----
(***************************************************************************)
(* Real-time collaboration engine of the collaborative whiteboard:         *)
(* backend/python/app/socket_handlers.py.                                  *)
(*                                                                         *)
(* The module-level BoardState instance `state` (boards, users,            *)
(* board_users), the Socket.io rooms the handlers enter and leave, and one *)
(* action per Socket.io event handler.  Python dicts are functions with a  *)
(* finite domain, Python lists are sequences, Python sets are sets.        *)
(* Strings that the code slices or uses as a default for another string    *)
(* (connection ids, user ids, display names) are sequences of characters.  *)
(***************************************************************************)
EXTENDS Integers, Sequences, FiniteSets, Bags, TLC

VARIABLES
    state,   \* the global BoardState: [boards, users, board_users]
    rooms,   \* Socket.io room name (a board id) -> set of connection ids in it
    conns,   \* connection id -> "new" | "open" | "closed" (transport lifecycle)
    ev,      \* the inbound event the last handler handled: [name, sid, data]
    out,     \* the outbound events the last handler emitted, in order
    pre,     \* what the last handler found when it started: [user, boards]
    tally,   \* joins and leaves counted so far: [joined, joins, leaves]
    run      \* handlers suspended at an await, and what was delivered so far:
             \* [tasks, clock, cause, seen, last]

vars == <<state, rooms, conns, ev, out, pre, tally, run>>

----------------------------------------------------------------------------
(* Python values *)

\* None, the result of dict.get(key) for a missing key.
None == "None"

\* {} : the empty dict.
EmptyDict == [k \in {} |-> None]

\* d.get(k, default)
Get(d, k, default) == IF k \in DOMAIN d THEN d[k] ELSE default

\* d[k] = v
Put(d, k, v) == [x \in DOMAIN d \cup {k} |-> IF x = k THEN v ELSE d[x]]

\* del d[k]
Del(d, k) == [x \in DOMAIN d \ {k} |-> d[x]]

\* Faulty variant of Take: the string is not cut.
TakeAll(s, n) == s

\* s[:n]
Take(s, n) == SubSeq(s, 1, IF Len(s) < n THEN Len(s) ELSE n)

\* bool(v) for a board id: None and the empty string are falsy.
Truthy(v) == v \notin {None, ""}

----------------------------------------------------------------------------
(* Inputs *)

\* Connection ids (Socket.io sids), longer than the 6 characters join_board
\* keeps of them.
Sid1 == <<"c", "o", "n", "n", "-", "0", "1">>
Sid2 == <<"c", "o", "n", "n", "-", "0", "2">>
Sid3 == <<"c", "o", "n", "n", "-", "0", "3">>
Sids == {Sid1, Sid2, Sid3}

\* The board ids the join_board payloads lead to ("default" when the payload
\* names none).
BoardIds == {"default", "X"}

\* join_board payloads: no field at all, a board id alone, every field.
JoinPayloads ==
    { EmptyDict,
      [board_id |-> "X"],
      [board_id |-> "X", user_id |-> <<"u", "1">>, display_name |-> <<"A", "n", "n">>] }

\* Points of a stroke.
P1 == [x |-> 1, y |-> 1]
P2 == [x |-> 2, y |-> 2]
P3 == [x |-> 3, y |-> 3]

\* stroke_start payloads: the id alone (every other field defaulted), and
\* every field.
StrokeStartPayloads ==
    { [stroke_id |-> "k1"],
      [stroke_id |-> "k2", tool |-> "eraser", color |-> "#ff0000", size |-> 5,
       layer_id |-> "l2"] }

\* stroke_update payloads: a batch of one point, a batch of two, no points.
StrokeUpdatePayloads ==
    { [stroke_id |-> "k1", points |-> <<P1>>],
      [stroke_id |-> "k1", points |-> <<P2, P3>>],
      [stroke_id |-> "k2"] }

StrokeEndPayloads == { [stroke_id |-> "k1"], [stroke_id |-> "k2"] }

CursorPayloads == { EmptyDict, [x |-> 3, y |-> 4] }

\* Object properties: dicts.
PropsAB == [a |-> 1, b |-> 2]
PropsBC == [b |-> 3, c |-> 4]

ObjectAddPayloads ==
    { [object_id |-> "o1", type |-> "rect", properties |-> PropsAB, layer_id |-> "l2"],
      [object_id |-> "o2", type |-> "text"] }

ObjectUpdatePayloads ==
    { [object_id |-> "o1", properties |-> PropsBC],
      [object_id |-> "o2", properties |-> PropsBC],
      [object_id |-> "o1"] }

ObjectDeletePayloads == { [object_id |-> "o1"], [object_id |-> "o2"] }

\* Bounds of the model: strokes and objects stored per board, points stored
\* per stroke, and (where every handler runs) strokes, points and objects
\* stored by all boards together.
MaxStrokes == 2
MaxPoints == 3
MaxObjects == 3
MaxStored == 2

\* Bound of the model: inbound events handled step by step, await by await.
MaxEvents == 4

----------------------------------------------------------------------------
(* class BoardState *)

DefaultLayer == [id |-> "default", name |-> "Layer 1", visible |-> TRUE, locked |-> FALSE]

\* Faulty variant of NewBoard: the default layer is not seeded.
NewBoardUnseeded == [strokes |-> <<>>, objects |-> <<>>, layers |-> <<>>]

\* The board get_or_create_board stores for an id it has not seen.
NewBoard == [strokes |-> <<>>, objects |-> <<>>, layers |-> <<DefaultLayer>>]

\* BoardState.__init__
BoardStateInit == [boards |-> EmptyDict, users |-> EmptyDict, board_users |-> EmptyDict]

\* Faulty variant of get_or_create_board: the new board is returned but not
\* stored.
get_or_create_board_unstored(st, board_id) ==
    IF board_id \notin DOMAIN st.boards
    THEN [st |-> st, ret |-> NewBoard]
    ELSE [st |-> st, ret |-> st.boards[board_id]]

\* Faulty variant of get_or_create_board: a resident board is seeded again.
get_or_create_board_reset(st, board_id) ==
    [st  |-> [st EXCEPT !.boards = Put(@, board_id, NewBoard),
                        !.board_users = Put(@, board_id, {})],
     ret |-> NewBoard]

\* BoardState.get_or_create_board:
\* [st |-> the state after the call, ret |-> the board it returns].
get_or_create_board(st, board_id) ==
    IF board_id \notin DOMAIN st.boards
    THEN [st  |-> [st EXCEPT !.boards = Put(@, board_id, NewBoard),
                             !.board_users = Put(@, board_id, {})],
          ret |-> NewBoard]
    ELSE [st |-> st, ret |-> st.boards[board_id]]

\* Faulty variant of add_user: a connection that has a Participant record
\* keeps it.
add_user_once(st, sid, user_id, display_name, board_id) ==
    LET st1 == IF sid \in DOMAIN st.users THEN st
               ELSE [st EXCEPT !.users = Put(@, sid, [user_id |-> user_id,
                                                      display_name |-> display_name,
                                                      board_id |-> board_id])]
    IN  IF board_id \in DOMAIN st1.board_users
        THEN [st1 EXCEPT !.board_users[board_id] = @ \cup {sid}]
        ELSE st1

\* BoardState.add_user (joined_at, a wall-clock timestamp, is left out).
add_user(st, sid, user_id, display_name, board_id) ==
    LET st1 == [st EXCEPT !.users = Put(@, sid, [user_id |-> user_id,
                                                 display_name |-> display_name,
                                                 board_id |-> board_id])]
    IN  IF board_id \in DOMAIN st1.board_users
        THEN [st1 EXCEPT !.board_users[board_id] = @ \cup {sid}]
        ELSE st1

\* Faulty variant of remove_user: an unknown connection is reported as having
\* been on board "default".
remove_user_default(st, sid) ==
    IF sid \in DOMAIN st.users
    THEN LET board_id == st.users[sid].board_id
             st1 == [st EXCEPT !.users = Del(@, sid)]
         IN  [st  |-> IF board_id \in DOMAIN st1.board_users
                      THEN [st1 EXCEPT !.board_users[board_id] = @ \ {sid}]
                      ELSE st1,
              ret |-> board_id]
    ELSE [st |-> st, ret |-> "default"]

\* Faulty variant of remove_user: a board nobody is left on is dropped.
remove_user_evicting(st, sid) ==
    IF sid \in DOMAIN st.users
    THEN LET board_id == st.users[sid].board_id
             st1 == [st EXCEPT !.users = Del(@, sid)]
             st2 == IF board_id \in DOMAIN st1.board_users
                    THEN [st1 EXCEPT !.board_users[board_id] = @ \ {sid}]
                    ELSE st1
         IN  [st  |-> IF board_id \in DOMAIN st2.boards /\ st2.board_users[board_id] = {}
                      THEN [st2 EXCEPT !.boards = Del(@, board_id),
                                       !.board_users = Del(@, board_id)]
                      ELSE st2,
              ret |-> board_id]
    ELSE [st |-> st, ret |-> None]

\* Faulty variant of remove_user: a membership set nobody is left in is deleted.
remove_user_pruning(st, sid) ==
    IF sid \in DOMAIN st.users
    THEN LET board_id == st.users[sid].board_id
             st1 == [st EXCEPT !.users = Del(@, sid)]
         IN  [st  |-> IF board_id \in DOMAIN st1.board_users
                      THEN IF st1.board_users[board_id] \ {sid} = {}
                           THEN [st1 EXCEPT !.board_users = Del(@, board_id)]
                           ELSE [st1 EXCEPT !.board_users[board_id] = @ \ {sid}]
                      ELSE st1,
              ret |-> board_id]
    ELSE [st |-> st, ret |-> None]

\* BoardState.remove_user: [st |-> the state after the call, ret |-> its result].
remove_user(st, sid) ==
    IF sid \in DOMAIN st.users
    THEN LET board_id == st.users[sid].board_id
             st1 == [st EXCEPT !.users = Del(@, sid)]
         IN  [st  |-> IF board_id \in DOMAIN st1.board_users
                      THEN [st1 EXCEPT !.board_users[board_id] = @ \ {sid}]
                      ELSE st1,
              ret |-> board_id]
    ELSE [st |-> st, ret |-> None]

\* BoardState.get_board_user_count
get_board_user_count(st, board_id) ==
    Cardinality(Get(st.board_users, board_id, {}))

\* BoardState.get_board_users: the list as a bag of Participant records (the
\* order of a Python set's iteration is not fixed).
get_board_users(st, board_id) ==
    LET members == {sid \in Get(st.board_users, board_id, {}) : sid \in DOMAIN st.users}
    IN  [u \in {st.users[sid] : sid \in members} |->
            Cardinality({sid \in members : st.users[sid] = u})]

----------------------------------------------------------------------------
(* Socket.io server primitives the handlers call *)

\* sio.enter_room(sid, room)
enter_room(rs, sid, room) == Put(rs, room, Get(rs, room, {}) \cup {sid})

\* sio.leave_room(sid, room)
leave_room(rs, sid, room) ==
    IF room \in DOMAIN rs THEN [rs EXCEPT ![room] = @ \ {sid}] ELSE rs

\* The server's own cleanup after the disconnect handler: the connection
\* leaves every room.
leave_all_rooms(rs, sid) == [r \in DOMAIN rs |-> rs[r] \ {sid}]

\* sio.emit(event, data, to=sid): delivered to that connection.
EmitTo(name, data, sid) == [name |-> name, data |-> data, to |-> {sid}]

\* sio.emit(event, data, room=room): delivered to every connection in the room.
EmitRoom(rs, name, data, room) ==
    [name |-> name, data |-> data, to |-> Get(rs, room, {})]

\* Faulty variant of EmitRoomSkip: skip_sid is not honoured.
EmitRoomUnskipped(rs, name, data, room, sid) ==
    [name |-> name, data |-> data, to |-> Get(rs, room, {})]

\* sio.emit(event, data, room=room, skip_sid=sid)
EmitRoomSkip(rs, name, data, room, sid) ==
    [name |-> name, data |-> data, to |-> Get(rs, room, {}) \ {sid}]

----------------------------------------------------------------------------
(* Event handlers.  Each action is one whole handler. *)

\* What handler(sid) finds when it starts: the Participant record of sid (a
\* set: empty when there is none) and the ids of the resident boards.
Found(sid) ==
    [user   |-> IF sid \in DOMAIN state.users THEN {state.users[sid]} ELSE {},
     boards |-> DOMAIN state.boards]

Init ==
    /\ state = BoardStateInit
    /\ rooms = EmptyDict
    /\ conns = [sid \in Sids |-> "new"]
    /\ ev = [name |-> "init", sid |-> None, data |-> EmptyDict]
    /\ out = <<>>
    /\ pre = [user |-> {}, boards |-> {}]
    /\ tally = [joined |-> {},
                joins  |-> [b \in BoardIds |-> 0],
                leaves |-> [b \in BoardIds |-> 0]]
    /\ run = [tasks |-> {}, clock |-> 0, cause |-> 0,
              seen  |-> [r \in Sids |-> [s \in Sids |-> 0]],
              last  |-> EmptyDict]

\* async def connect(sid, environ, auth)
connect(sid) ==
    /\ conns[sid] = "new"
    /\ conns' = [conns EXCEPT ![sid] = "open"]
    /\ ev' = [name |-> "connect", sid |-> sid, data |-> EmptyDict]
    /\ out' = <<EmitTo("connected", [sid |-> sid], sid)>>
    /\ pre' = Found(sid)
    /\ UNCHANGED <<state, rooms>>

\* Faulty variant of Disconnected: the user count is not announced.
DisconnectedUncounted(st, rs, sid) ==
    LET r == remove_user(st, sid)
        board_id == r.ret
    IN  IF Truthy(board_id)
        THEN LET rs1 == leave_room(rs, sid, board_id)
             IN  [state |-> r.st,
                  rooms |-> leave_all_rooms(rs1, sid),
                  out   |-> << EmitRoomSkip(rs1, "user_left", [sid |-> sid], board_id, sid) >>]
        ELSE [state |-> r.st, rooms |-> leave_all_rooms(rs, sid), out |-> <<>>]

\* The body of disconnect, from the BoardState st and the rooms rs:
\* [state, rooms, out] when it is done.  When the handler has returned, the
\* server takes the closed connection out of every room.
Disconnected(st, rs, sid) ==
    LET r == remove_user(st, sid)
        board_id == r.ret
    IN  IF Truthy(board_id)
        THEN LET rs1 == leave_room(rs, sid, board_id)
             IN  [state |-> r.st,
                  rooms |-> leave_all_rooms(rs1, sid),
                  out   |-> << EmitRoomSkip(rs1, "user_left", [sid |-> sid], board_id, sid),
                               EmitRoom(rs1, "user_count",
                                        [count |-> get_board_user_count(r.st, board_id)],
                                        board_id) >>]
        ELSE [state |-> r.st, rooms |-> leave_all_rooms(rs, sid), out |-> <<>>]

\* async def disconnect(sid)
disconnect(sid) ==
    /\ conns[sid] = "open"
    /\ LET done == Disconnected(state, rooms, sid)
       IN  /\ state' = done.state
           /\ rooms' = done.rooms
           /\ out' = done.out
    /\ conns' = [conns EXCEPT ![sid] = "closed"]
    /\ ev' = [name |-> "disconnect", sid |-> sid, data |-> EmptyDict]
    /\ pre' = Found(sid)

\* async def join_board(sid, data)
join_board(sid, data) ==
    /\ conns[sid] = "open"
    /\ LET board_id == Get(data, "board_id", "default")
           user_id == Get(data, "user_id", sid)
           display_name == Get(data, "display_name", <<"User-">> \o Take(sid, 6))
           rs1 == enter_room(rooms, sid, board_id)
           st1 == add_user(state, sid, user_id, display_name, board_id)
           r == get_or_create_board(st1, board_id)
           st2 == r.st
           board == r.ret
       IN  /\ state' = st2
           /\ rooms' = rs1
           /\ out' = << EmitTo("board_state",
                               [board_id |-> board_id,
                                strokes |-> board.strokes,
                                objects |-> board.objects,
                                layers |-> board.layers,
                                users |-> get_board_users(st2, board_id)],
                               sid),
                        EmitRoomSkip(rs1, "user_joined",
                                     [sid |-> sid, user_id |-> user_id,
                                      display_name |-> display_name],
                                     board_id, sid),
                        EmitRoom(rs1, "user_count",
                                 [count |-> get_board_user_count(st2, board_id)],
                                 board_id) >>
    /\ ev' = [name |-> "join_board", sid |-> sid, data |-> data]
    /\ pre' = Found(sid)
    /\ UNCHANGED conns

\* The body of leave_board, from the BoardState st and the rooms rs:
\* [state, rooms, out] when it is done.
BoardLeft(st, rs, sid) ==
    LET r == remove_user(st, sid)
        board_id == r.ret
    IN  IF Truthy(board_id)
        THEN LET rs1 == leave_room(rs, sid, board_id)
             IN  [state |-> r.st,
                  rooms |-> rs1,
                  out   |-> << EmitRoomSkip(rs1, "user_left", [sid |-> sid], board_id, sid),
                               EmitRoom(rs1, "user_count",
                                        [count |-> get_board_user_count(r.st, board_id)],
                                        board_id) >>]
        ELSE [state |-> r.st, rooms |-> rs, out |-> <<>>]

\* async def leave_board(sid, data)
leave_board(sid) ==
    /\ conns[sid] = "open"
    /\ LET done == BoardLeft(state, rooms, sid)
       IN  /\ state' = done.state
           /\ rooms' = done.rooms
           /\ out' = done.out
    /\ ev' = [name |-> "leave_board", sid |-> sid, data |-> EmptyDict]
    /\ pre' = Found(sid)
    /\ UNCHANGED conns

----------------------------------------------------------------------------
(* Drawing and object handlers.  Each has the shape                        *)
(*     user = state.users.get(sid); if not user: return                    *)
(*     board = state.boards.get(user["board_id"]); if board: <effect>      *)
(*     await sio.emit(...)                                                 *)
(* and <effect> is an operator on the board's record.                      *)

\* The state with board board_id replaced by board, when it is resident
\* (board = state.boards.get(board_id); if board: ...).
WithBoard(st, board_id, board) ==
    IF board_id \in DOMAIN st.boards
    THEN [st EXCEPT !.boards[board_id] = board]
    ELSE st

\* The board a handler works on (looked at only when it is resident).
BoardAt(st, board_id) == st.boards[board_id]

\* The first of the indexes S, 0 when there is none
\* (for x in seq: if <match>: ...; break).
First(S) == IF S = {} THEN 0 ELSE CHOOSE i \in S : \A j \in S : i <= j

\* Faulty variant of StrokeStarted: the stroke is put in front of the others.
StrokeStartedInFront(board, user, data) ==
    [board EXCEPT !.strokes =
        <<[id |-> Get(data, "stroke_id", None),
           user_id |-> user.user_id,
           tool |-> Get(data, "tool", "pen"),
           color |-> Get(data, "color", "#000000"),
           size |-> Get(data, "size", 2),
           layer_id |-> Get(data, "layer_id", "default"),
           points |-> <<>>,
           completed |-> FALSE]>> \o @]

\* Faulty variant of StrokeStarted: a stored stroke with the same id is started
\* afresh, no second stroke is stored.
StrokeStartedAfresh(board, user, data) ==
    LET stroke == [id |-> Get(data, "stroke_id", None),
                   user_id |-> user.user_id,
                   tool |-> Get(data, "tool", "pen"),
                   color |-> Get(data, "color", "#000000"),
                   size |-> Get(data, "size", 2),
                   layer_id |-> Get(data, "layer_id", "default"),
                   points |-> <<>>,
                   completed |-> FALSE]
        i == First({j \in 1..Len(board.strokes) : board.strokes[j].id = stroke.id})
    IN  IF i = 0 THEN [board EXCEPT !.strokes = Append(@, stroke)]
        ELSE [board EXCEPT !.strokes[i] = stroke]

\* stroke_start: board["strokes"].append(stroke)
StrokeStarted(board, user, data) ==
    [board EXCEPT !.strokes =
        Append(@, [id |-> Get(data, "stroke_id", None),
                   user_id |-> user.user_id,
                   tool |-> Get(data, "tool", "pen"),
                   color |-> Get(data, "color", "#000000"),
                   size |-> Get(data, "size", 2),
                   layer_id |-> Get(data, "layer_id", "default"),
                   points |-> <<>>,
                   completed |-> FALSE])]

\* async def stroke_start(sid, data)
stroke_start(sid, data) ==
    /\ conns[sid] = "open"
    /\ IF sid \notin DOMAIN state.users
       THEN /\ out' = <<>>
            /\ UNCHANGED state
       ELSE LET user == state.users[sid]
                board_id == user.board_id
                stroke_id == Get(data, "stroke_id", None)
            IN  /\ state' = WithBoard(state, board_id,
                                      StrokeStarted(BoardAt(state, board_id), user, data))
                /\ out' = << EmitRoomSkip(rooms, "stroke_start",
                                          [stroke_id |-> stroke_id,
                                           user_id |-> user.user_id,
                                           tool |-> Get(data, "tool", "pen"),
                                           color |-> Get(data, "color", "#000000"),
                                           size |-> Get(data, "size", 2),
                                           layer_id |-> Get(data, "layer_id", "default")],
                                          board_id, sid) >>
    /\ ev' = [name |-> "stroke_start", sid |-> sid, data |-> data]
    /\ pre' = Found(sid)
    /\ UNCHANGED <<rooms, conns>>

\* Faulty variant of StrokeUpdated: the completed flag is not looked at.
StrokeUpdatedAnyway(board, stroke_id, points) ==
    LET i == First({j \in 1..Len(board.strokes) : board.strokes[j].id = stroke_id})
    IN  IF i = 0 THEN board
        ELSE [board EXCEPT !.strokes[i].points = @ \o points]

\* Faulty variant of StrokeUpdated: the batch replaces the stored points.
StrokeUpdatedReplacing(board, stroke_id, points) ==
    LET i == First({j \in 1..Len(board.strokes) :
                      board.strokes[j].id = stroke_id /\ ~board.strokes[j].completed})
    IN  IF i = 0 THEN board
        ELSE [board EXCEPT !.strokes[i].points = points]

\* stroke_update: the first stroke with that id that is not completed gets the
\* points appended.
StrokeUpdated(board, stroke_id, points) ==
    LET i == First({j \in 1..Len(board.strokes) :
                      board.strokes[j].id = stroke_id /\ ~board.strokes[j].completed})
    IN  IF i = 0 THEN board
        ELSE [board EXCEPT !.strokes[i].points = @ \o points]

\* async def stroke_update(sid, data)
stroke_update(sid, data) ==
    /\ conns[sid] = "open"
    /\ IF sid \notin DOMAIN state.users
       THEN /\ out' = <<>>
            /\ UNCHANGED state
       ELSE LET user == state.users[sid]
                board_id == user.board_id
                stroke_id == Get(data, "stroke_id", None)
                points == Get(data, "points", <<>>)
            IN  /\ state' = WithBoard(state, board_id,
                                      StrokeUpdated(BoardAt(state, board_id), stroke_id, points))
                /\ out' = << EmitRoomSkip(rooms, "stroke_update",
                                          [stroke_id |-> stroke_id, points |-> points],
                                          board_id, sid) >>
    /\ ev' = [name |-> "stroke_update", sid |-> sid, data |-> data]
    /\ pre' = Found(sid)
    /\ UNCHANGED <<rooms, conns>>

\* Faulty variant of StrokeEnded: the completed stroke is taken off the board.
StrokeEndedAndDropped(board, stroke_id) ==
    LET i == First({j \in 1..Len(board.strokes) : board.strokes[j].id = stroke_id})
    IN  IF i = 0 THEN board
        ELSE [board EXCEPT !.strokes = SubSeq(@, 1, i - 1) \o SubSeq(@, i + 1, Len(@))]

\* Faulty variant of StrokeEnded: the completed flag is flipped.
StrokeEndToggled(board, stroke_id) ==
    LET i == First({j \in 1..Len(board.strokes) : board.strokes[j].id = stroke_id})
    IN  IF i = 0 THEN board
        ELSE [board EXCEPT !.strokes[i].completed = ~@]

\* stroke_end: the first stroke with that id is marked completed.
StrokeEnded(board, stroke_id) ==
    LET i == First({j \in 1..Len(board.strokes) : board.strokes[j].id = stroke_id})
    IN  IF i = 0 THEN board
        ELSE [board EXCEPT !.strokes[i].completed = TRUE]

\* async def stroke_end(sid, data)
stroke_end(sid, data) ==
    /\ conns[sid] = "open"
    /\ IF sid \notin DOMAIN state.users
       THEN /\ out' = <<>>
            /\ UNCHANGED state
       ELSE LET user == state.users[sid]
                board_id == user.board_id
                stroke_id == Get(data, "stroke_id", None)
            IN  /\ state' = WithBoard(state, board_id,
                                      StrokeEnded(BoardAt(state, board_id), stroke_id))
                /\ out' = << EmitRoomSkip(rooms, "stroke_end",
                                          [stroke_id |-> stroke_id], board_id, sid) >>
    /\ ev' = [name |-> "stroke_end", sid |-> sid, data |-> data]
    /\ pre' = Found(sid)
    /\ UNCHANGED <<rooms, conns>>

\* Faulty variant of cursor_move: the cursor is kept on the board as an object.
cursor_move_traced(sid, data) ==
    /\ conns[sid] = "open"
    /\ IF sid \notin DOMAIN state.users
       THEN /\ out' = <<>>
            /\ UNCHANGED state
       ELSE LET user == state.users[sid]
                board_id == user.board_id
                board == BoardAt(state, board_id)
            IN  /\ state' = WithBoard(state, board_id,
                                      [board EXCEPT !.objects =
                                          Append(@, [id |-> "cursor", type |-> "cursor",
                                                     properties |-> data,
                                                     layer_id |-> "default",
                                                     user_id |-> user.user_id])])
                /\ out' = << EmitRoomSkip(rooms, "cursor_update",
                                          [user_id |-> user.user_id,
                                           display_name |-> user.display_name,
                                           x |-> Get(data, "x", 0),
                                           y |-> Get(data, "y", 0)],
                                          board_id, sid) >>
    /\ ev' = [name |-> "cursor_move", sid |-> sid, data |-> data]
    /\ pre' = Found(sid)
    /\ UNCHANGED <<rooms, conns>>

\* async def cursor_move(sid, data)
cursor_move(sid, data) ==
    /\ conns[sid] = "open"
    /\ IF sid \notin DOMAIN state.users
       THEN out' = <<>>
       ELSE LET user == state.users[sid]
                board_id == user.board_id
            IN  out' = << EmitRoomSkip(rooms, "cursor_update",
                                       [user_id |-> user.user_id,
                                        display_name |-> user.display_name,
                                        x |-> Get(data, "x", 0),
                                        y |-> Get(data, "y", 0)],
                                       board_id, sid) >>
    /\ ev' = [name |-> "cursor_move", sid |-> sid, data |-> data]
    /\ pre' = Found(sid)
    /\ UNCHANGED <<state, rooms, conns>>

\* Faulty variant of BoardCleared: the objects are kept.
BoardClearedOfStrokes(board) == [board EXCEPT !.strokes = <<>>]

\* Faulty variant of BoardCleared: the layers are emptied as well.
BoardClearedWithLayers(board) ==
    [board EXCEPT !.strokes = <<>>, !.objects = <<>>, !.layers = <<>>]

\* clear_board: board["strokes"] = []; board["objects"] = []
BoardCleared(board) == [board EXCEPT !.strokes = <<>>, !.objects = <<>>]

\* Faulty variant of clear_board: a sender without a Participant record is
\* taken to be on board "default".
clear_board_fallback(sid) ==
    /\ conns[sid] = "open"
    /\ LET board_id == IF sid \in DOMAIN state.users
                       THEN state.users[sid].board_id ELSE "default"
           user_id == IF sid \in DOMAIN state.users
                      THEN state.users[sid].user_id ELSE sid
       IN  /\ state' = WithBoard(state, board_id, BoardCleared(BoardAt(state, board_id)))
           /\ out' = << EmitRoom(rooms, "board_cleared",
                                 [cleared_by |-> user_id], board_id) >>
    /\ ev' = [name |-> "clear_board", sid |-> sid, data |-> EmptyDict]
    /\ pre' = Found(sid)
    /\ UNCHANGED <<rooms, conns>>

\* Faulty variant of clear_board: every resident board is cleared.
clear_board_everywhere(sid) ==
    /\ conns[sid] = "open"
    /\ IF sid \notin DOMAIN state.users
       THEN /\ out' = <<>>
            /\ UNCHANGED state
       ELSE LET user == state.users[sid]
                board_id == user.board_id
            IN  /\ state' = [state EXCEPT !.boards =
                                 [b \in DOMAIN @ |-> BoardCleared(@[b])]]
                /\ out' = << EmitRoom(rooms, "board_cleared",
                                      [cleared_by |-> user.user_id], board_id) >>
    /\ ev' = [name |-> "clear_board", sid |-> sid, data |-> EmptyDict]
    /\ pre' = Found(sid)
    /\ UNCHANGED <<rooms, conns>>

\* async def clear_board(sid, data)
clear_board(sid) ==
    /\ conns[sid] = "open"
    /\ IF sid \notin DOMAIN state.users
       THEN /\ out' = <<>>
            /\ UNCHANGED state
       ELSE LET user == state.users[sid]
                board_id == user.board_id
            IN  /\ state' = WithBoard(state, board_id, BoardCleared(BoardAt(state, board_id)))
                /\ out' = << EmitRoom(rooms, "board_cleared",
                                      [cleared_by |-> user.user_id], board_id) >>
    /\ ev' = [name |-> "clear_board", sid |-> sid, data |-> EmptyDict]
    /\ pre' = Found(sid)
    /\ UNCHANGED <<rooms, conns>>

\* object_add: board["objects"].append(obj)
ObjectAdded(board, user, data) ==
    [board EXCEPT !.objects =
        Append(@, [id |-> Get(data, "object_id", None),
                   type |-> Get(data, "type", None),
                   properties |-> Get(data, "properties", EmptyDict),
                   layer_id |-> Get(data, "layer_id", "default"),
                   user_id |-> user.user_id])]

\* async def object_add(sid, data)
object_add(sid, data) ==
    /\ conns[sid] = "open"
    /\ IF sid \notin DOMAIN state.users
       THEN /\ out' = <<>>
            /\ UNCHANGED state
       ELSE LET user == state.users[sid]
                board_id == user.board_id
            IN  /\ state' = WithBoard(state, board_id,
                                      ObjectAdded(BoardAt(state, board_id), user, data))
                /\ out' = << EmitRoomSkip(rooms, "object_added",
                                          [object_id |-> Get(data, "object_id", None),
                                           type |-> Get(data, "type", None),
                                           properties |-> Get(data, "properties", EmptyDict),
                                           layer_id |-> Get(data, "layer_id", "default"),
                                           user_id |-> user.user_id],
                                          board_id, sid) >>
    /\ ev' = [name |-> "object_add", sid |-> sid, data |-> data]
    /\ pre' = Found(sid)
    /\ UNCHANGED <<rooms, conns>>

\* Faulty variant of DictUpdate: the dict is replaced, not merged.
DictReplace(old, upd) == upd

\* dict.update: every key of upd takes upd's value, the other keys stay.
DictUpdate(old, upd) ==
    [k \in DOMAIN old \cup DOMAIN upd |-> IF k \in DOMAIN upd THEN upd[k] ELSE old[k]]

\* object_update: the first object with that id gets the properties merged.
ObjectUpdated(board, object_id, properties) ==
    LET i == First({j \in 1..Len(board.objects) : board.objects[j].id = object_id})
    IN  IF i = 0 THEN board
        ELSE [board EXCEPT !.objects[i].properties = DictUpdate(@, properties)]

\* async def object_update(sid, data)
object_update(sid, data) ==
    /\ conns[sid] = "open"
    /\ IF sid \notin DOMAIN state.users
       THEN /\ out' = <<>>
            /\ UNCHANGED state
       ELSE LET user == state.users[sid]
                board_id == user.board_id
                object_id == Get(data, "object_id", None)
                properties == Get(data, "properties", EmptyDict)
            IN  /\ state' = WithBoard(state, board_id,
                                      ObjectUpdated(BoardAt(state, board_id), object_id, properties))
                /\ out' = << EmitRoomSkip(rooms, "object_updated",
                                          [object_id |-> object_id,
                                           properties |-> properties,
                                           user_id |-> user.user_id],
                                          board_id, sid) >>
    /\ ev' = [name |-> "object_update", sid |-> sid, data |-> data]
    /\ pre' = Found(sid)
    /\ UNCHANGED <<rooms, conns>>

\* Faulty variant of WithoutId: only the first object with the id is dropped.
WithoutFirstId(seq, object_id) ==
    LET i == First({j \in 1..Len(seq) : seq[j].id = object_id})
    IN  IF i = 0 THEN seq
        ELSE SubSeq(seq, 1, i - 1) \o SubSeq(seq, i + 1, Len(seq))

\* [o for o in seq if o["id"] != object_id]
RECURSIVE WithoutId(_, _)
WithoutId(seq, object_id) ==
    IF seq = <<>> THEN <<>>
    ELSE IF Head(seq).id # object_id
         THEN <<Head(seq)>> \o WithoutId(Tail(seq), object_id)
         ELSE WithoutId(Tail(seq), object_id)

\* object_delete: board["objects"] = [o for o in board["objects"] if ...]
ObjectDeleted(board, object_id) ==
    [board EXCEPT !.objects = WithoutId(@, object_id)]

\* async def object_delete(sid, data)
object_delete(sid, data) ==
    /\ conns[sid] = "open"
    /\ IF sid \notin DOMAIN state.users
       THEN /\ out' = <<>>
            /\ UNCHANGED state
       ELSE LET user == state.users[sid]
                board_id == user.board_id
                object_id == Get(data, "object_id", None)
            IN  /\ state' = WithBoard(state, board_id,
                                      ObjectDeleted(BoardAt(state, board_id), object_id))
                /\ out' = << EmitRoomSkip(rooms, "object_deleted",
                                          [object_id |-> object_id,
                                           user_id |-> user.user_id],
                                          board_id, sid) >>
    /\ ev' = [name |-> "object_delete", sid |-> sid, data |-> data]
    /\ pre' = Found(sid)
    /\ UNCHANGED <<rooms, conns>>

----------------------------------------------------------------------------
(* Specifications *)

\* The bounds of the model: what a board may store.
WithinBounds ==
    \A b \in DOMAIN state.boards :
        /\ Len(state.boards[b].strokes) <= MaxStrokes
        /\ \A i \in 1..Len(state.boards[b].strokes) :
              Len(state.boards[b].strokes[i].points) <= MaxPoints
        /\ Len(state.boards[b].objects) <= MaxObjects

RECURSIVE PointsIn(_)
PointsIn(strokes) ==
    IF strokes = <<>> THEN 0 ELSE Len(Head(strokes).points) + PointsIn(Tail(strokes))

RECURSIVE StoredIn(_, _)
StoredIn(boards, ids) ==
    IF ids = {} THEN 0
    ELSE LET b == CHOOSE b \in ids : TRUE
         IN  Len(boards[b].strokes) + PointsIn(boards[b].strokes)
                + Len(boards[b].objects) + StoredIn(boards, ids \ {b})

\* The strokes, points and objects all boards store.
Stored == StoredIn(state.boards, DOMAIN state.boards)

\* Presence: three connections connect, join, leave and disconnect.
Next ==
    \/ \E sid \in Sids : connect(sid) /\ UNCHANGED <<tally, run>>
    \/ \E sid \in Sids : disconnect(sid) /\ UNCHANGED <<tally, run>>
    \/ \E sid \in Sids : leave_board(sid) /\ UNCHANGED <<tally, run>>
    \/ \E sid \in Sids, data \in JoinPayloads : join_board(sid, data) /\ UNCHANGED <<tally, run>>

Spec == Init /\ [][Next]_vars

\* The tally after the handler of event e, which found the state st: a join
\* counts for the board it names, a leave or disconnect of a registered
\* connection for the board of its Participant record.
Tallied(t, e, st) ==
    IF e.name = "join_board"
    THEN [t EXCEPT !.joined = @ \cup {e.sid},
                   !.joins[Get(e.data, "board_id", "default")] = @ + 1]
    ELSE IF e.name \in {"leave_board", "disconnect"} /\ e.sid \in DOMAIN st.users
    THEN [t EXCEPT !.leaves[st.users[e.sid].board_id] = @ + 1]
    ELSE t

\* Counting: every connection joins at most once, and leaves or disconnects
\* only while it is joined.
NextCount ==
    \/ \E sid \in Sids :
          connect(sid) /\ tally' = Tallied(tally, ev', state) /\ UNCHANGED run
    \/ \E sid \in Sids \ tally.joined, data \in JoinPayloads :
          join_board(sid, data) /\ tally' = Tallied(tally, ev', state) /\ UNCHANGED run
    \/ \E sid \in DOMAIN state.users :
          leave_board(sid) /\ tally' = Tallied(tally, ev', state) /\ UNCHANGED run
    \/ \E sid \in DOMAIN state.users :
          disconnect(sid) /\ tally' = Tallied(tally, ev', state) /\ UNCHANGED run

SpecCount == Init /\ [][NextCount]_vars

DrawSids == {Sid1, Sid2}

\* Strokes: two connections on board "default" draw strokes and clear the board.
NextStroke ==
    \/ \E sid \in DrawSids : connect(sid) /\ UNCHANGED <<tally, run>>
    \/ \E sid \in DrawSids : join_board(sid, EmptyDict) /\ UNCHANGED <<tally, run>>
    \/ \E sid \in DrawSids, data \in StrokeStartPayloads :
          stroke_start(sid, data) /\ WithinBounds' /\ UNCHANGED <<tally, run>>
    \/ \E sid \in DrawSids, data \in StrokeUpdatePayloads :
          stroke_update(sid, data) /\ WithinBounds' /\ UNCHANGED <<tally, run>>
    \/ \E sid \in DrawSids, data \in StrokeEndPayloads :
          stroke_end(sid, data) /\ UNCHANGED <<tally, run>>
    \/ \E sid \in DrawSids : clear_board(sid) /\ UNCHANGED <<tally, run>>

SpecStroke == Init /\ [][NextStroke]_vars

\* Objects: two connections on board "default" add, update and delete objects
\* and clear the board.
NextObject ==
    \/ \E sid \in DrawSids : connect(sid) /\ UNCHANGED <<tally, run>>
    \/ \E sid \in DrawSids : join_board(sid, EmptyDict) /\ UNCHANGED <<tally, run>>
    \/ \E sid \in DrawSids, data \in ObjectAddPayloads :
          object_add(sid, data) /\ WithinBounds' /\ UNCHANGED <<tally, run>>
    \/ \E sid \in DrawSids, data \in ObjectUpdatePayloads :
          object_update(sid, data) /\ UNCHANGED <<tally, run>>
    \/ \E sid \in DrawSids, data \in ObjectDeletePayloads :
          object_delete(sid, data) /\ UNCHANGED <<tally, run>>
    \/ \E sid \in DrawSids : clear_board(sid) /\ UNCHANGED <<tally, run>>

SpecObject == Init /\ [][NextObject]_vars

\* Every handler, two boards: one connection joins, draws, leaves and keeps
\* sending; a second one joins, watches and disconnects.
NextDraw ==
    \/ \E sid \in DrawSids : connect(sid) /\ UNCHANGED <<tally, run>>
    \/ \E sid \in DrawSids, data \in {EmptyDict, [board_id |-> "X"]} :
          join_board(sid, data) /\ UNCHANGED <<tally, run>>
    \/ leave_board(Sid1) /\ UNCHANGED <<tally, run>>
    \/ disconnect(Sid2) /\ UNCHANGED <<tally, run>>
    \/ /\ stroke_start(Sid1, [stroke_id |-> "k1"])
       /\ WithinBounds' /\ Stored' <= MaxStored /\ UNCHANGED <<tally, run>>
    \/ /\ stroke_update(Sid1, [stroke_id |-> "k1", points |-> <<P1>>])
       /\ WithinBounds' /\ Stored' <= MaxStored /\ UNCHANGED <<tally, run>>
    \/ stroke_end(Sid1, [stroke_id |-> "k1"]) /\ UNCHANGED <<tally, run>>
    \/ cursor_move(Sid1, [x |-> 3, y |-> 4]) /\ UNCHANGED <<tally, run>>
    \/ clear_board(Sid1) /\ UNCHANGED <<tally, run>>
    \/ /\ object_add(Sid1, [object_id |-> "o1", type |-> "rect", properties |-> PropsAB])
       /\ WithinBounds' /\ Stored' <= MaxStored /\ UNCHANGED <<tally, run>>
    \/ object_update(Sid1, [object_id |-> "o1", properties |-> PropsBC]) /\ UNCHANGED <<tally, run>>
    \/ object_delete(Sid1, [object_id |-> "o1"]) /\ UNCHANGED <<tally, run>>

SpecDraw == Init /\ [][NextDraw]_vars

----------------------------------------------------------------------------
(* Properties *)

\* The board join_board(data) joins.
JoinedBoard(data) == Get(data, "board_id", "default")

\* The connections whose Participant record in st names board b.
ParticipantsOf(st, b) == {sid \in DOMAIN st.users : st.users[sid].board_id = b}

\* C1: when every connection joins at most once and leaves only while it is
\* joined, get_board_user_count(b) is the number of joins to b minus the
\* number of leaves from b, for every board b.
C1_CountIsJoinsMinusLeaves ==
    \A b \in BoardIds :
        get_board_user_count(state, b) = tally.joins[b] - tally.leaves[b]

\* C2: a connection id is in at most one board's membership set.
C2_InAtMostOneBoard ==
    \A sid \in Sids :
        Cardinality({b \in DOMAIN state.board_users : sid \in state.board_users[b]}) <= 1

\* C3: between handlers, the membership set of every resident board is
\* exactly the set of connections whose Participant record names that board.
C3_MembersAreParticipants ==
    \A b \in DOMAIN state.boards : state.board_users[b] = ParticipantsOf(state, b)

\* C4: between handlers, the board_id of every Participant record names a
\* resident board session.
C4_ParticipantBoardResident ==
    \A sid \in DOMAIN state.users : state.users[sid].board_id \in DOMAIN state.boards

\* C4 witness: a join has created the board its Participant record names.
C4_Witness ==
    /\ ev.name = "join_board"
    /\ JoinedBoard(ev.data) \notin pre.boards
    /\ ev.sid \in DOMAIN state.users
    /\ state.users[ev.sid].board_id = JoinedBoard(ev.data)
    /\ JoinedBoard(ev.data) \in DOMAIN state.boards

\* C5: join_board for a board that was not resident sends the joiner a
\* board_state with no strokes, no objects and exactly the one default layer.
C5_FreshBoardStateIsEmpty ==
    (ev.name = "join_board" /\ JoinedBoard(ev.data) \notin pre.boards) =>
        /\ Len(out) >= 1
        /\ out[1].name = "board_state"
        /\ out[1].to = {ev.sid}
        /\ out[1].data.board_id = JoinedBoard(ev.data)
        /\ out[1].data.strokes = <<>>
        /\ out[1].data.objects = <<>>
        /\ out[1].data.layers =
              <<[id |-> "default", name |-> "Layer 1", visible |-> TRUE, locked |-> FALSE]>>

\* C5 witness: a connection has joined a board nobody had joined, while
\* another board holds a stroke and an object.
C5_Witness ==
    /\ ev.name = "join_board"
    /\ JoinedBoard(ev.data) \notin pre.boards
    /\ out[1].data.strokes = <<>>
    /\ \E b \in DOMAIN state.boards :
          state.boards[b].strokes # <<>> /\ state.boards[b].objects # <<>>

\* The strokes of board b of st that stroke_update(stroke_id) can append to.
Updatable(st, b, stroke_id) ==
    {i \in 1..Len(st.boards[b].strokes) :
        /\ st.boards[b].strokes[i].id = stroke_id
        /\ ~st.boards[b].strokes[i].completed}

\* C6: a stroke_update whose stroke_id matches no incomplete stroke of the
\* sender's board leaves the points of every stored stroke unchanged.
C6_UpdateWithoutTargetKeepsPoints ==
    [][ ( /\ ev'.name = "stroke_update"
          /\ ev'.sid \in DOMAIN state.users
          /\ state.users[ev'.sid].board_id \in DOMAIN state.boards
          /\ Updatable(state, state.users[ev'.sid].board_id,
                       Get(ev'.data, "stroke_id", None)) = {} )
        => /\ DOMAIN state'.boards = DOMAIN state.boards
           /\ \A b \in DOMAIN state.boards :
                 /\ Len(state'.boards[b].strokes) = Len(state.boards[b].strokes)
                 /\ \A i \in 1..Len(state.boards[b].strokes) :
                       state'.boards[b].strokes[i].points = state.boards[b].strokes[i].points
      ]_vars

\* C6 witness: a stroke_update with points for a stroke that is completed has
\* been handled and broadcast to another member; the stroke has points.
C6_Witness ==
    /\ ev.name = "stroke_update"
    /\ pre.user # {}
    /\ Get(ev.data, "points", <<>>) # <<>>
    /\ LET b == state.users[ev.sid].board_id
       IN  /\ Updatable(state, b, ev.data.stroke_id) = {}
           /\ \E i \in 1..Len(state.boards[b].strokes) :
                 /\ state.boards[b].strokes[i].id = ev.data.stroke_id
                 /\ state.boards[b].strokes[i].completed
                 /\ state.boards[b].strokes[i].points # <<>>
    /\ Len(out) = 1 /\ out[1].name = "stroke_update" /\ out[1].to # {}

\* The indexes of the objects of board b of st with the id object_id.
WithId(st, b, object_id) ==
    {i \in 1..Len(st.boards[b].objects) : st.boards[b].objects[i].id = object_id}

\* C7: object_update merges the properties of the (first) object with the
\* given id field by field: every key of the update takes the update's value,
\* every other key keeps its value, no key is removed, and nothing else of
\* the objects changes; when no object has the id the objects are unchanged.
C7_ObjectUpdateMerges ==
    [][ ( /\ ev'.name = "object_update"
          /\ ev'.sid \in DOMAIN state.users
          /\ state.users[ev'.sid].board_id \in DOMAIN state.boards )
        => LET b == state.users[ev'.sid].board_id
               old == state.boards[b].objects
               new == state'.boards[b].objects
               upd == Get(ev'.data, "properties", EmptyDict)
               hits == WithId(state, b, Get(ev'.data, "object_id", None))
           IN  IF hits = {} THEN new = old
               ELSE LET i == CHOOSE i \in hits : \A j \in hits : i <= j
                    IN  /\ Len(new) = Len(old)
                        /\ \A j \in 1..Len(old) : j # i => new[j] = old[j]
                        /\ DOMAIN new[i].properties =
                              DOMAIN old[i].properties \cup DOMAIN upd
                        /\ \A k \in DOMAIN upd : new[i].properties[k] = upd[k]
                        /\ \A k \in DOMAIN old[i].properties \ DOMAIN upd :
                              new[i].properties[k] = old[i].properties[k]
                        /\ [new[i] EXCEPT !.properties = EmptyDict]
                              = [old[i] EXCEPT !.properties = EmptyDict]
      ]_vars

\* C7 witness: properties {a:1, b:2} updated with {b:3, c:4} are
\* {a:1, b:3, c:4}.
C7_Witness ==
    /\ ev.name = "object_update"
    /\ pre.user # {}
    /\ Get(ev.data, "properties", EmptyDict) = [b |-> 3, c |-> 4]
    /\ LET b == state.users[ev.sid].board_id
       IN  \E i \in WithId(state, b, ev.data.object_id) :
              state.boards[b].objects[i].properties = [a |-> 1, b |-> 3, c |-> 4]

\* C8: a stroke, cursor, clear or object event from a connection without a
\* Participant record changes no state and emits nothing.
C8_UnregisteredSenderIsIgnored ==
    [][ ( /\ ev'.name \in {"stroke_start", "stroke_update", "stroke_end", "cursor_move",
                           "clear_board", "object_add", "object_update", "object_delete"}
          /\ ev'.sid \notin DOMAIN state.users )
        => state' = state /\ rooms' = rooms /\ out' = <<>>
      ]_vars

\* C8 witness: clear_board from a connection that has left, while its former
\* board still holds a stroke and an object and has a member.
C8_Witness ==
    /\ ev.name = "clear_board"
    /\ pre.user = {}
    /\ out = <<>>
    /\ \E b \in DOMAIN state.boards :
          /\ state.boards[b].strokes # <<>>
          /\ state.boards[b].objects # <<>>
          /\ Get(rooms, b, {}) # {}

\* C9: disconnect or leave_board of a connection without a Participant
\* record emits nothing and leaves boards, registry and membership unchanged.
C9_LeaveWithoutJoinIsSilent ==
    [][ ( /\ ev'.name \in {"disconnect", "leave_board"}
          /\ ev'.sid \notin DOMAIN state.users )
        => out' = <<>> /\ state' = state
      ]_vars

\* C9 witness: a connection without a Participant record has disconnected
\* while another connection is joined to a board.
C9_Witness ==
    /\ ev.name = "disconnect"
    /\ pre.user = {}
    /\ out = <<>>
    /\ \E sid \in DOMAIN state.users : sid \in Get(rooms, state.users[sid].board_id, {})

\* C10: when a connection joins a board on which k >= 1 other connections are
\* joined, user_joined goes to exactly those k connections and user_count
\* with count k + 1 goes to all k + 1.
C10_JoinNotifiesRoom ==
    [][ ev'.name = "join_board" =>
          LET b == JoinedBoard(ev'.data)
              others == ParticipantsOf(state, b) \ {ev'.sid}
          IN  others # {} =>
                /\ Len(out') = 3
                /\ out'[2].name = "user_joined"
                /\ out'[2].to = others
                /\ out'[2].data.sid = ev'.sid
                /\ out'[3].name = "user_count"
                /\ out'[3].to = others \cup {ev'.sid}
                /\ out'[3].data.count = Cardinality(others) + 1
      ]_vars

\* C11: when a registered connection leaves its board (leave_board or
\* disconnect) and k other connections remain joined to it, each of the k
\* receives user_left with the leaver's sid and then user_count with count k,
\* and the leaver receives neither.
C11_LeaveNotifiesRemaining ==
    [][ ( /\ ev'.name \in {"leave_board", "disconnect"}
          /\ ev'.sid \in DOMAIN state.users )
        => LET b == state.users[ev'.sid].board_id
               remaining == ParticipantsOf(state, b) \ {ev'.sid}
           IN  /\ Len(out') = 2
               /\ out'[1].name = "user_left"
               /\ out'[1].data = [sid |-> ev'.sid]
               /\ remaining \subseteq out'[1].to
               /\ ev'.sid \notin out'[1].to
               /\ out'[2].name = "user_count"
               /\ out'[2].data = [count |-> Cardinality(remaining)]
               /\ remaining \subseteq out'[2].to
               /\ ev'.sid \notin out'[2].to
      ]_vars

\* C12: when leave_board or disconnect of a connection has been handled, the
\* connection has no Participant record and is in no board's membership set.
C12_LeaverIsGone ==
    ev.name \in {"leave_board", "disconnect"} =>
        /\ ev.sid \notin DOMAIN state.users
        /\ \A b \in DOMAIN state.board_users : ev.sid \notin state.board_users[b]

\* C13: from the same state, disconnect(sid) and leave_board(sid) leave the
\* same registry, membership sets and board sessions and emit the same events,
\* in the same order, to the same recipients: every disconnect step ends as
\* leave_board would have, and every leave_board step as disconnect would have.
C13_DisconnectIsLeave ==
    [][ /\ ev'.name = "disconnect" =>
              /\ state' = BoardLeft(state, rooms, ev'.sid).state
              /\ out' = BoardLeft(state, rooms, ev'.sid).out
        /\ ev'.name = "leave_board" =>
              /\ state' = Disconnected(state, rooms, ev'.sid).state
              /\ out' = Disconnected(state, rooms, ev'.sid).out
      ]_vars

\* C13 witness: a joined connection has disconnected and the connections left
\* in its room were sent user_left and user_count.
C13_Witness ==
    /\ ev.name = "disconnect"
    /\ pre.user # {}
    /\ Len(out) = 2
    /\ out[1].name = "user_left" /\ out[1].to # {}
    /\ out[2].name = "user_count" /\ out[2].to # {}

\* C14: stroke_start from a registered participant appends exactly one stroke
\* at the end of the strokes of its board, with the given stroke_id, the
\* sender's user_id, no points and completed = false; the earlier strokes are
\* unchanged; and one stroke_start event goes to the other participants of the
\* board and not to the sender.
C14_StrokeStartAppends ==
    [][ ( /\ ev'.name = "stroke_start"
          /\ ev'.sid \in DOMAIN state.users )
        => LET user == state.users[ev'.sid]
               b == user.board_id
               old == state.boards[b].strokes
               new == state'.boards[b].strokes
           IN  /\ Len(new) = Len(old) + 1
               /\ SubSeq(new, 1, Len(old)) = old
               /\ new[Len(new)].id = Get(ev'.data, "stroke_id", None)
               /\ new[Len(new)].user_id = user.user_id
               /\ new[Len(new)].points = <<>>
               /\ new[Len(new)].completed = FALSE
               /\ Len(out') = 1
               /\ out'[1].name = "stroke_start"
               /\ out'[1].data.stroke_id = Get(ev'.data, "stroke_id", None)
               /\ out'[1].data.user_id = user.user_id
               /\ ParticipantsOf(state, b) \ {ev'.sid} \subseteq out'[1].to
               /\ ev'.sid \notin out'[1].to
      ]_vars

\* C14 witness: a stroke has been started behind a completed stroke that has
\* points, and the other participant was sent stroke_start.
C14_Witness ==
    /\ ev.name = "stroke_start"
    /\ pre.user # {}
    /\ LET strokes == state.boards[state.users[ev.sid].board_id].strokes
       IN  /\ Len(strokes) = 2
           /\ strokes[1].completed /\ strokes[1].points # <<>>
           /\ strokes[2].id = ev.data.stroke_id
           /\ strokes[2].points = <<>> /\ ~strokes[2].completed
    /\ Len(out) = 1 /\ out[1].name = "stroke_start" /\ out[1].to # {}

\* The indexes of the strokes of board b of st with the id stroke_id.
StrokesWithId(st, b, stroke_id) ==
    {i \in 1..Len(st.boards[b].strokes) : st.boards[b].strokes[i].id = stroke_id}

\* C15: stroke_end from a registered participant leaves the (first) stroke
\* with the given id on the sender's board completed, whatever it was before,
\* with its other fields and its points as they were, and leaves every other
\* stroke as it was; when no stroke has the id the board session is unchanged.
C15_StrokeEndCompletes ==
    [][ ( /\ ev'.name = "stroke_end"
          /\ ev'.sid \in DOMAIN state.users )
        => LET b == state.users[ev'.sid].board_id
               old == state.boards[b].strokes
               new == state'.boards[b].strokes
               hits == StrokesWithId(state, b, Get(ev'.data, "stroke_id", None))
           IN  IF hits = {} THEN state'.boards[b] = state.boards[b]
               ELSE LET i == CHOOSE i \in hits : \A j \in hits : i <= j
                    IN  /\ Len(new) = Len(old)
                        /\ new[i].completed = TRUE
                        /\ new[i].points = old[i].points
                        /\ [new[i] EXCEPT !.completed = TRUE]
                              = [old[i] EXCEPT !.completed = TRUE]
                        /\ \A j \in 1..Len(old) : j # i => new[j] = old[j]
                        /\ state'.boards[b].objects = state.boards[b].objects
                        /\ state'.boards[b].layers = state.boards[b].layers
      ]_vars

\* C15 witness: stroke_end has completed a stroke that has points, while
\* another stroke of the board is still open.
C15_Witness ==
    /\ ev.name = "stroke_end"
    /\ pre.user # {}
    /\ LET b == state.users[ev.sid].board_id
           strokes == state.boards[b].strokes
       IN  /\ \E i \in StrokesWithId(state, b, ev.data.stroke_id) :
                 strokes[i].completed /\ strokes[i].points # <<>>
           /\ \E j \in 1..Len(strokes) : ~strokes[j].completed

\* C16: clear_board from a registered participant leaves its board with no
\* strokes and no objects and with the layers it had, and one board_cleared
\* event naming the sender's user_id goes to every participant of the board,
\* the sender included.
C16_ClearBoardEmpties ==
    [][ ( /\ ev'.name = "clear_board"
          /\ ev'.sid \in DOMAIN state.users )
        => LET user == state.users[ev'.sid]
               b == user.board_id
           IN  /\ state'.boards[b].strokes = <<>>
               /\ state'.boards[b].objects = <<>>
               /\ state'.boards[b].layers = state.boards[b].layers
               /\ Len(out') = 1
               /\ out'[1].name = "board_cleared"
               /\ out'[1].data = [cleared_by |-> user.user_id]
               /\ ParticipantsOf(state, b) \subseteq out'[1].to
               /\ ev'.sid \in out'[1].to
      ]_vars

\* C16 witness: a board with two participants has been cleared and both were
\* sent board_cleared, while the other board keeps what it holds.
C16_Witness ==
    /\ ev.name = "clear_board"
    /\ pre.user # {}
    /\ LET b == state.users[ev.sid].board_id
       IN  /\ state.boards[b].strokes = <<>> /\ state.boards[b].objects = <<>>
           /\ state.boards[b].layers # <<>>
           /\ Cardinality(ParticipantsOf(state, b)) = 2
           /\ out[1].to = ParticipantsOf(state, b)
           /\ \E c \in DOMAIN state.boards \ {b} :
                 state.boards[c].strokes # <<>> /\ state.boards[c].objects # <<>>

\* C17: after object_delete from a registered participant no object of the
\* sender's board has the given id, and the other objects are all kept, in
\* the order they had; when no object has the id the objects are unchanged.
C17_ObjectDeleteRemoves ==
    [][ ( /\ ev'.name = "object_delete"
          /\ ev'.sid \in DOMAIN state.users )
        => LET b == state.users[ev'.sid].board_id
               old == state.boards[b].objects
               new == state'.boards[b].objects
               object_id == Get(ev'.data, "object_id", None)
               hits == WithId(state, b, object_id)
               kept == (1..Len(old)) \ hits
           IN  /\ \A i \in 1..Len(new) : new[i].id # object_id
               /\ Len(new) = Cardinality(kept)
               /\ \A j \in kept :
                     new[j - Cardinality({h \in hits : h < j})] = old[j]
               /\ hits = {} => new = old
      ]_vars

\* C17 witness: object_delete has been handled and broadcast to the other
\* participant, and two different objects with another id are still on the
\* board.
C17_Witness ==
    /\ ev.name = "object_delete"
    /\ pre.user # {}
    /\ LET b == state.users[ev.sid].board_id
           objects == state.boards[b].objects
       IN  /\ WithId(state, b, ev.data.object_id) = {}
           /\ Len(objects) = 2
           /\ objects[1] # objects[2]
    /\ Len(out) = 1 /\ out[1].name = "object_deleted" /\ out[1].to # {}

\* The outbound events the handlers emit with skip_sid.
SkippingEvents ==
    {"stroke_start", "stroke_update", "stroke_end", "cursor_update", "object_added",
     "object_updated", "object_deleted", "user_joined", "user_left"}

\* C18: no stroke_start, stroke_update, stroke_end, cursor_update,
\* object_added, object_updated, object_deleted, user_joined or user_left
\* event is delivered to the connection whose inbound event caused it.
C18_NoEchoToSender ==
    \A i \in 1..Len(out) :
        out[i].name \in SkippingEvents => ev.sid \notin out[i].to

\* C18 witness: a cursor_update went to the other connection in the sender's
\* room and not to the sender, who is in that room too.
C18_Witness ==
    /\ ev.name = "cursor_move"
    /\ pre.user # {}
    /\ Len(out) = 1 /\ out[1].name = "cursor_update"
    /\ out[1].to # {}
    /\ ev.sid \notin out[1].to
    /\ ev.sid \in Get(rooms, state.users[ev.sid].board_id, {})

\* The outbound events the handlers emit to a board's room.
RoomEvents == SkippingEvents \cup {"board_cleared", "user_count"}

\* The board the last handler made its room broadcasts for (none when it made
\* none): the board a join_board joined, and for every other event the board
\* of the Participant record the handler found for the sender.
BroadcastBoards ==
    IF ev.name = "join_board" THEN {JoinedBoard(ev.data)}
    ELSE {u.board_id : u \in pre.user}

\* C19: every room broadcast made for a board b is delivered only to
\* connections whose Participant record names b at that time; a connection that
\* has joined another board since, or has left, gets none of them.
C19_BroadcastOnlyToParticipants ==
    \A i \in 1..Len(out) :
        out[i].name \in RoomEvents =>
            \A b \in BroadcastBoards : out[i].to \subseteq ParticipantsOf(state, b)

\* The inbound events whose handlers write to a board session.
BoardWritingEvents ==
    {"stroke_start", "stroke_update", "stroke_end", "clear_board",
     "object_add", "object_update", "object_delete"}

\* C20: join_board for board Y from a connection joined to another board X
\* runs to its end (board_state, user_joined and user_count are emitted),
\* leaves the connection with one Participant record, naming Y, and the other
\* records as they were; and a stroke, object or clear event of a registered
\* connection leaves every board but the one its record names unchanged.
C20_RejoinMovesParticipant ==
    [][ /\ ( /\ ev'.name = "join_board"
             /\ ev'.sid \in DOMAIN state.users
             /\ state.users[ev'.sid].board_id # JoinedBoard(ev'.data) )
           => /\ Len(out') = 3
              /\ DOMAIN state'.users = DOMAIN state.users
              /\ state'.users[ev'.sid].board_id = JoinedBoard(ev'.data)
              /\ \A sid \in DOMAIN state.users \ {ev'.sid} :
                    state'.users[sid] = state.users[sid]
        /\ ( /\ ev'.name \in BoardWritingEvents
             /\ ev'.sid \in DOMAIN state.users )
           => /\ DOMAIN state'.boards = DOMAIN state.boards
              /\ \A b \in DOMAIN state.boards \ {state.users[ev'.sid].board_id} :
                    state'.boards[b] = state.boards[b]
      ]_vars

\* C20 witness: a connection that joined one board and then another without
\* leaving (it is still in the first board's room) has started a stroke: the
\* stroke is on the board it joined last, and the first board holds what it
\* held.
C20_Witness ==
    /\ ev.name = "stroke_start"
    /\ pre.user # {}
    /\ LET b == state.users[ev.sid].board_id
       IN  /\ Len(state.boards[b].strokes) = 1
           /\ state.boards[b].strokes[1].id = ev.data.stroke_id
           /\ \E c \in DOMAIN state.boards \ {b} :
                 /\ ev.sid \in Get(rooms, c, {})
                 /\ state.boards[c].objects # <<>>
                 /\ state.boards[c].strokes = <<>>

\* The Participant records of st that name board b, as a bag.
ParticipantRecords(st, b) ==
    [u \in {st.users[sid] : sid \in ParticipantsOf(st, b)} |->
        Cardinality({sid \in ParticipantsOf(st, b) : st.users[sid] = u})]

\* C23: the users list of the board_state sent to a joiner holds exactly the
\* Participant records that name the joined board at that moment, the
\* joiner's own record among them.
C23_BoardStateListsParticipants ==
    ev.name = "join_board" =>
        /\ out[1].name = "board_state"
        /\ out[1].data.users = ParticipantRecords(state, JoinedBoard(ev.data))
        /\ BagIn(state.users[ev.sid], out[1].data.users)

\* C25: a stroke_update that finds an incomplete stroke with its id leaves
\* that stroke with the points it had followed by the whole batch, in the
\* batch's order, and every other stroke with the points it had; so the
\* stored points are the accepted batches, whoever sent them, one after the
\* other in the order they were handled.
C25_UpdateAppendsWholeBatch ==
    [][ ( /\ ev'.name = "stroke_update"
          /\ ev'.sid \in DOMAIN state.users )
        => LET b == state.users[ev'.sid].board_id
               old == state.boards[b].strokes
               new == state'.boards[b].strokes
               batch == Get(ev'.data, "points", <<>>)
               hits == Updatable(state, b, Get(ev'.data, "stroke_id", None))
           IN  hits # {} =>
                 LET i == CHOOSE i \in hits : \A j \in hits : i <= j
                 IN  /\ Len(new) = Len(old)
                     /\ new[i].points = old[i].points \o batch
                     /\ \A j \in 1..Len(old) : j # i => new[j].points = old[j].points
      ]_vars

\* C25 witness: a stroke started by one connection holds a batch of two
\* points followed by the batch of one point that another connection has just
\* sent.
C25_Witness ==
    /\ ev.name = "stroke_update"
    /\ pre.user # {}
    /\ Get(ev.data, "points", <<>>) = <<P1>>
    /\ LET b == state.users[ev.sid].board_id
       IN  \E i \in Updatable(state, b, ev.data.stroke_id) :
              /\ state.boards[b].strokes[i].points = <<P2, P3, P1>>
              /\ state.boards[b].strokes[i].user_id # state.users[ev.sid].user_id

\* C26: a resident board session stays resident; leave_board and disconnect
\* leave the strokes, objects and layers of every board as they were, also
\* when the last participant goes; and join_board for a resident board sends
\* the joiner exactly the strokes and objects the board holds, open strokes
\* included.
C26_BoardOutlivesMembers ==
    [][ /\ DOMAIN state.boards \subseteq DOMAIN state'.boards
        /\ ev'.name \in {"leave_board", "disconnect"} => state'.boards = state.boards
        /\ ( /\ ev'.name = "join_board"
             /\ JoinedBoard(ev'.data) \in DOMAIN state.boards )
           => /\ out'[1].name = "board_state"
              /\ out'[1].to = {ev'.sid}
              /\ out'[1].data.strokes = state.boards[JoinedBoard(ev'.data)].strokes
              /\ out'[1].data.objects = state.boards[JoinedBoard(ev'.data)].objects
      ]_vars

\* C26 witness: a connection has joined a board nobody else is on and was sent
\* the open stroke with a point and the object the board had kept.
C26_Witness ==
    /\ ev.name = "join_board"
    /\ JoinedBoard(ev.data) \in pre.boards
    /\ ParticipantsOf(state, JoinedBoard(ev.data)) = {ev.sid}
    /\ pre.user = {}
    /\ Len(out[1].data.strokes) = 1
    /\ ~out[1].data.strokes[1].completed
    /\ out[1].data.strokes[1].points # <<>>
    /\ out[1].data.objects = <<>>

\* C27: get_or_create_board for a resident board returns the stored session
\* and changes nothing of the BoardState; and join_board for a resident board
\* leaves the strokes, objects and layers of every board as they were, and of
\* the membership sets changes only the joined board's, by the joiner.
C27_GetOrCreateIsIdempotent ==
    [][ /\ \A b \in DOMAIN state.boards :
              /\ get_or_create_board(state, b).st = state
              /\ get_or_create_board(state, b).ret = state.boards[b]
        /\ ( /\ ev'.name = "join_board"
             /\ JoinedBoard(ev'.data) \in DOMAIN state.boards )
           => /\ state'.boards = state.boards
              /\ DOMAIN state'.board_users = DOMAIN state.board_users
              /\ \A b \in DOMAIN state.board_users :
                    state'.board_users[b] =
                        IF b = JoinedBoard(ev'.data)
                        THEN state.board_users[b] \cup {ev'.sid}
                        ELSE state.board_users[b]
      ]_vars

\* C27 witness: a second connection has joined a resident board that holds a
\* stroke and an object and has a member, and all of it is still there.
C27_Witness ==
    /\ ev.name = "join_board"
    /\ JoinedBoard(ev.data) \in pre.boards
    /\ LET b == JoinedBoard(ev.data)
       IN  /\ state.boards[b].strokes # <<>>
           /\ state.boards[b].objects # <<>>
           /\ state.boards[b].layers = <<DefaultLayer>>
           /\ Cardinality(state.board_users[b]) >= 1
           /\ Cardinality(ParticipantsOf(state, b)) = 2

\* The inbound events of presence: connection, joining, leaving, cursors.
PresenceEvents == {"connect", "join_board", "leave_board", "disconnect", "cursor_move"}

\* C28: connect, join_board, leave_board, disconnect and cursor_move leave
\* the strokes, objects and layers of every resident board as they were; the
\* only board session they may add is the one join_board joins, seeded with
\* no strokes, no objects and the default layer.
C28_PresenceKeepsBoards ==
    [][ ev'.name \in PresenceEvents
        => /\ \A b \in DOMAIN state.boards :
                 b \in DOMAIN state'.boards /\ state'.boards[b] = state.boards[b]
           /\ \A b \in DOMAIN state'.boards \ DOMAIN state.boards :
                 /\ ev'.name = "join_board"
                 /\ b = JoinedBoard(ev'.data)
                 /\ state'.boards[b] =
                       [strokes |-> <<>>, objects |-> <<>>,
                        layers |-> <<[id |-> "default", name |-> "Layer 1",
                                      visible |-> TRUE, locked |-> FALSE]>>]
      ]_vars

\* C28 witness: a cursor_move of a participant has been broadcast, and its
\* board holds the stroke and the object it held.
C28_Witness ==
    /\ ev.name = "cursor_move"
    /\ pre.user # {}
    /\ Len(out) = 1 /\ out[1].to # {}
    /\ LET b == state.users[ev.sid].board_id
       IN  /\ Len(state.boards[b].strokes) = 1
           /\ Len(state.boards[b].objects) = 1
           /\ state.boards[b].objects[1].type = "rect"

\* The fields of a stroke that are set when it is created.
CreatedFields(stroke) ==
    [id |-> stroke.id, user_id |-> stroke.user_id, tool |-> stroke.tool,
     color |-> stroke.color, size |-> stroke.size, layer_id |-> stroke.layer_id]

\* C29: in every step the strokes of a board either keep their number, their
\* order and each its id, user_id, tool, color, size and layer_id; or get one
\* stroke appended at the end by stroke_start, the others being as they were;
\* or are emptied as a whole by clear_board.
C29_StrokesAppendedOrCleared ==
    [][ \A b \in DOMAIN state.boards :
          LET old == state.boards[b].strokes
              new == state'.boards[b].strokes
          IN  \/ /\ Len(new) = Len(old)
                 /\ \A i \in 1..Len(old) : CreatedFields(new[i]) = CreatedFields(old[i])
              \/ /\ ev'.name = "stroke_start"
                 /\ Len(new) = Len(old) + 1
                 /\ \A i \in 1..Len(old) : new[i] = old[i]
              \/ /\ ev'.name = "clear_board"
                 /\ new = <<>>
      ]_vars

\* C29 witness: stroke_end has been handled on a board with two strokes of
\* different id, tool, color, size and layer, the first completed with
\* points.
C29_Witness ==
    /\ ev.name = "stroke_end"
    /\ pre.user # {}
    /\ LET strokes == state.boards[state.users[ev.sid].board_id].strokes
       IN  /\ Len(strokes) = 2
           /\ strokes[1].id # strokes[2].id
           /\ strokes[1].tool # strokes[2].tool
           /\ strokes[1].user_id # strokes[2].user_id
           /\ strokes[1].completed /\ strokes[1].points # <<>>

\* C30: join_board is handled whatever fields its payload lacks: without
\* board_id the connection is registered on board "default", without user_id
\* with its connection id as user_id, without display_name with "User-" and
\* the first six characters of its connection id as display_name; and
\* board_state goes to the joiner, then user_joined with the registered names
\* and user_count to the room.
C30_JoinDefaults ==
    ev.name = "join_board" =>
        /\ ev.sid \in DOMAIN state.users
        /\ LET user == state.users[ev.sid]
           IN  /\ "board_id" \notin DOMAIN ev.data => user.board_id = "default"
               /\ "user_id" \notin DOMAIN ev.data => user.user_id = ev.sid
               /\ "display_name" \notin DOMAIN ev.data =>
                     user.display_name = <<"User-">> \o SubSeq(ev.sid, 1, 6)
               /\ Len(out) = 3
               /\ out[1].name = "board_state"
               /\ out[1].to = {ev.sid}
               /\ out[1].data.board_id = user.board_id
               /\ out[2].name = "user_joined"
               /\ out[2].data = [sid |-> ev.sid, user_id |-> user.user_id,
                                 display_name |-> user.display_name]
               /\ out[3].name = "user_count"
               /\ ev.sid \in out[3].to

\* C30 witness: a join_board with an empty payload has registered the
\* connection on "default" and user_joined with the default names went to
\* another connection.
C30_Witness ==
    /\ ev.name = "join_board"
    /\ ev.data = EmptyDict
    /\ state.users[ev.sid].board_id = "default"
    /\ out[2].name = "user_joined"
    /\ out[2].to # {}
    /\ out[2].data.user_id = ev.sid
    /\ Len(out[2].data.display_name) = 7

----------------------------------------------------------------------------
(* Handlers step by step.  Every inbound event is handled as a task of its *)
(* own; a task runs until it awaits, the awaited call takes its effect,    *)
(* and the task may be resumed after steps of other tasks, of the same     *)
(* connection or of another.  A step is the code from one await to the     *)
(* next.                                                                   *)

\* The highest inbound event of each sender of which each connection has been
\* sent a room broadcast, after the events emitted were delivered.
Seen(seen, emitted, sender, cause) ==
    [r \in Sids |->
        [s \in Sids |->
            IF /\ s = sender
               /\ cause > seen[r][s]
               /\ \E i \in 1..Len(emitted) :
                     emitted[i].name \in RoomEvents /\ r \in emitted[i].to
            THEN cause
            ELSE seen[r][s]]]

\* The count of the last user_count delivered to somebody in each board's
\* room, after the events emitted for board_id were delivered.
Last(last, emitted, board_id) ==
    IF \E i \in 1..Len(emitted) : emitted[i].name = "user_count" /\ emitted[i].to # {}
    THEN LET i == CHOOSE i \in 1..Len(emitted) : emitted[i].name = "user_count"
         IN  Put(last, board_id, emitted[i].data.count)
    ELSE last

\* run, when the inbound event of a new task t has been received and t has
\* run to its first await, where it is suspended (or to its end: at = "done").
Started(t) ==
    [run EXCEPT !.tasks = IF t.at = "done" THEN @ ELSE @ \cup {t},
                !.clock = t.seq,
                !.cause = t.seq]

\* run, when the suspended task t has run to its next await, emitting the
\* events emitted, and is suspended there (or has returned: at = "done").
Resumed(t, at, emitted) ==
    [run EXCEPT !.tasks = IF at = "done" THEN @ \ {t}
                          ELSE (@ \ {t}) \cup {[t EXCEPT !.at = at]},
                !.cause = t.seq,
                !.seen = Seen(@, emitted, t.sid, t.seq),
                !.last = Last(@, emitted, t.board_id)]

\* join_board up to `await sio.enter_room(sid, board_id)`.
join_board_enter(sid, data) ==
    /\ conns[sid] = "open"
    /\ run.clock < MaxEvents
    /\ LET board_id == Get(data, "board_id", "default")
       IN  /\ rooms' = enter_room(rooms, sid, board_id)
           /\ run' = Started([seq |-> run.clock + 1, name |-> "join_board", sid |-> sid,
                              data |-> data, board_id |-> board_id, at |-> "entered"])
    /\ ev' = [name |-> "join_board", sid |-> sid, data |-> data]
    /\ out' = <<>>
    /\ pre' = Found(sid)
    /\ UNCHANGED <<state, conns, tally>>

\* join_board from the room entry to `await sio.emit("board_state", ...)`.
join_board_register(t) ==
    /\ t \in run.tasks /\ t.name = "join_board" /\ t.at = "entered"
    /\ LET user_id == Get(t.data, "user_id", t.sid)
           display_name == Get(t.data, "display_name", <<"User-">> \o Take(t.sid, 6))
           st1 == add_user(state, t.sid, user_id, display_name, t.board_id)
           r == get_or_create_board(st1, t.board_id)
           board == r.ret
           emitted == << EmitTo("board_state",
                                [board_id |-> t.board_id,
                                 strokes |-> board.strokes,
                                 objects |-> board.objects,
                                 layers |-> board.layers,
                                 users |-> get_board_users(r.st, t.board_id)],
                                t.sid) >>
       IN  /\ state' = r.st
           /\ out' = emitted
           /\ run' = Resumed(t, "greeted", emitted)
    /\ ev' = [name |-> t.name, sid |-> t.sid, data |-> t.data]
    /\ pre' = Found(t.sid)
    /\ UNCHANGED <<rooms, conns, tally>>

\* join_board from there to `await sio.emit("user_joined", ...)`.
join_board_announce(t) ==
    /\ t \in run.tasks /\ t.name = "join_board" /\ t.at = "greeted"
    /\ LET user_id == Get(t.data, "user_id", t.sid)
           display_name == Get(t.data, "display_name", <<"User-">> \o Take(t.sid, 6))
           emitted == << EmitRoomSkip(rooms, "user_joined",
                                      [sid |-> t.sid, user_id |-> user_id,
                                       display_name |-> display_name],
                                      t.board_id, t.sid) >>
       IN  /\ out' = emitted
           /\ run' = Resumed(t, "announced", emitted)
    /\ ev' = [name |-> t.name, sid |-> t.sid, data |-> t.data]
    /\ pre' = Found(t.sid)
    /\ UNCHANGED <<state, rooms, conns, tally>>

\* join_board from there to its end, `await sio.emit("user_count", ...)`.
join_board_count(t) ==
    /\ t \in run.tasks /\ t.name = "join_board" /\ t.at = "announced"
    /\ LET emitted == << EmitRoom(rooms, "user_count",
                                  [count |-> get_board_user_count(state, t.board_id)],
                                  t.board_id) >>
       IN  /\ out' = emitted
           /\ run' = Resumed(t, "done", emitted)
    /\ ev' = [name |-> t.name, sid |-> t.sid, data |-> t.data]
    /\ pre' = Found(t.sid)
    /\ UNCHANGED <<state, rooms, conns, tally>>

\* disconnect up to `await sio.leave_room(sid, board_id)`, or to its end when
\* remove_user returned nothing; the transport is closed when the handler
\* starts, and the server takes the connection out of every room when the
\* handler has returned.
disconnect_remove(sid) ==
    /\ conns[sid] = "open"
    /\ run.clock < MaxEvents
    /\ LET r == remove_user(state, sid)
           board_id == r.ret
       IN  /\ state' = r.st
           /\ rooms' = IF Truthy(board_id) THEN leave_room(rooms, sid, board_id)
                       ELSE leave_all_rooms(rooms, sid)
           /\ run' = Started([seq |-> run.clock + 1, name |-> "disconnect", sid |-> sid,
                              data |-> EmptyDict, board_id |-> board_id,
                              at |-> IF Truthy(board_id) THEN "left" ELSE "done"])
    /\ conns' = [conns EXCEPT ![sid] = "closed"]
    /\ ev' = [name |-> "disconnect", sid |-> sid, data |-> EmptyDict]
    /\ out' = <<>>
    /\ pre' = Found(sid)
    /\ UNCHANGED tally

\* disconnect from there to `await sio.emit("user_left", ...)`.
disconnect_announce(t) ==
    /\ t \in run.tasks /\ t.name = "disconnect" /\ t.at = "left"
    /\ LET emitted == << EmitRoomSkip(rooms, "user_left", [sid |-> t.sid],
                                      t.board_id, t.sid) >>
       IN  /\ out' = emitted
           /\ run' = Resumed(t, "announced", emitted)
    /\ ev' = [name |-> t.name, sid |-> t.sid, data |-> t.data]
    /\ pre' = Found(t.sid)
    /\ UNCHANGED <<state, rooms, conns, tally>>

\* disconnect from there to its end, `await sio.emit("user_count", ...)`.
disconnect_count(t) ==
    /\ t \in run.tasks /\ t.name = "disconnect" /\ t.at = "announced"
    /\ LET emitted == << EmitRoom(rooms, "user_count",
                                  [count |-> get_board_user_count(state, t.board_id)],
                                  t.board_id) >>
       IN  /\ out' = emitted
           /\ run' = Resumed(t, "done", emitted)
    /\ rooms' = leave_all_rooms(rooms, t.sid)
    /\ ev' = [name |-> t.name, sid |-> t.sid, data |-> t.data]
    /\ pre' = Found(t.sid)
    /\ UNCHANGED <<state, conns, tally>>

\* leave_board up to `await sio.leave_room(sid, board_id)`, or to its end
\* when remove_user returned nothing.
leave_board_remove(sid) ==
    /\ conns[sid] = "open"
    /\ run.clock < MaxEvents
    /\ LET r == remove_user(state, sid)
           board_id == r.ret
       IN  /\ state' = r.st
           /\ rooms' = IF Truthy(board_id) THEN leave_room(rooms, sid, board_id)
                       ELSE rooms
           /\ run' = Started([seq |-> run.clock + 1, name |-> "leave_board", sid |-> sid,
                              data |-> EmptyDict, board_id |-> board_id,
                              at |-> IF Truthy(board_id) THEN "left" ELSE "done"])
    /\ ev' = [name |-> "leave_board", sid |-> sid, data |-> EmptyDict]
    /\ out' = <<>>
    /\ pre' = Found(sid)
    /\ UNCHANGED <<conns, tally>>

\* leave_board from there to `await sio.emit("user_left", ...)`.
leave_board_announce(t) ==
    /\ t \in run.tasks /\ t.name = "leave_board" /\ t.at = "left"
    /\ LET emitted == << EmitRoomSkip(rooms, "user_left", [sid |-> t.sid],
                                      t.board_id, t.sid) >>
       IN  /\ out' = emitted
           /\ run' = Resumed(t, "announced", emitted)
    /\ ev' = [name |-> t.name, sid |-> t.sid, data |-> t.data]
    /\ pre' = Found(t.sid)
    /\ UNCHANGED <<state, rooms, conns, tally>>

\* leave_board from there to its end, `await sio.emit("user_count", ...)`.
leave_board_count(t) ==
    /\ t \in run.tasks /\ t.name = "leave_board" /\ t.at = "announced"
    /\ LET emitted == << EmitRoom(rooms, "user_count",
                                  [count |-> get_board_user_count(state, t.board_id)],
                                  t.board_id) >>
       IN  /\ out' = emitted
           /\ run' = Resumed(t, "done", emitted)
    /\ ev' = [name |-> t.name, sid |-> t.sid, data |-> t.data]
    /\ pre' = Found(t.sid)
    /\ UNCHANGED <<state, rooms, conns, tally>>

\* A handler whose only await is its last statement, the emit, handled as the
\* next inbound event: run after the step that made the emissions of out'.
Handled(sid) ==
    [run EXCEPT !.clock = @ + 1,
                !.cause = run.clock + 1,
                !.seen = Seen(@, out', sid, run.clock + 1)]

\* Two connections join board "default", move their cursors, leave and
\* disconnect; the handlers interleave at their awaits.
NextAsync ==
    \/ \E sid \in DrawSids : connect(sid) /\ UNCHANGED <<tally, run>>
    \/ \E sid \in DrawSids : join_board_enter(sid, EmptyDict)
    \/ \E t \in run.tasks : join_board_register(t)
    \/ \E t \in run.tasks : join_board_announce(t)
    \/ \E t \in run.tasks : join_board_count(t)
    \/ \E sid \in DrawSids : disconnect_remove(sid)
    \/ \E t \in run.tasks : disconnect_announce(t)
    \/ \E t \in run.tasks : disconnect_count(t)
    \/ \E sid \in DrawSids : leave_board_remove(sid)
    \/ \E t \in run.tasks : leave_board_announce(t)
    \/ \E t \in run.tasks : leave_board_count(t)
    \/ \E sid \in DrawSids :
          /\ run.clock < MaxEvents
          /\ cursor_move(sid, [x |-> 3, y |-> 4])
          /\ run' = Handled(sid)
          /\ UNCHANGED tally

SpecAsync == Init /\ [][NextAsync]_vars

\* C21: broadcasts caused by inbound events of one connection reach every
\* other connection in the order the connection sent those events: no
\* connection is sent a room broadcast caused by an event that the sender sent
\* before an event of which that connection was already sent a broadcast.
C21_BroadcastsInSendOrder ==
    [][ \A i \in 1..Len(out') :
          out'[i].name \in RoomEvents =>
              \A r \in out'[i].to \ {ev'.sid} : run.seen[r][ev'.sid] <= run'.cause
      ]_vars

\* C22: when a connection is closed and none of its handlers is in flight, it
\* has no Participant record and is in no board's membership set, also when
\* its disconnect was handled while its join_board was suspended.
C22_DisconnectedIsGone ==
    \A sid \in Sids :
        (conns[sid] = "closed" /\ \A t \in run.tasks : t.sid # sid) =>
            /\ sid \notin DOMAIN state.users
            /\ \A b \in DOMAIN state.board_users : sid \notin state.board_users[b]

\* C24: when no join_board, leave_board or disconnect handler is in flight,
\* the count of the last user_count delivered to a board's room is the number
\* of connections joined to the board.
C24_LastCountIsCurrent ==
    run.tasks = {} =>
        \A b \in DOMAIN run.last :
            run.last[b] = Cardinality(ParticipantsOf(state, b))

----------------------------------------------------------------------------
(* Frame of the drawing handlers, uniqueness of ids, residency *)

\* C31: a stroke, object or clear event changes at most the board session its
\* sender's Participant record names: the registry, every membership set and
\* the set of resident boards stay as they were, and every other resident
\* board keeps its strokes, objects and layers; an event of a sender without a
\* record changes no board at all.
C31_DrawingKeepsOtherBoards ==
    [][ ev'.name \in BoardWritingEvents =>
          /\ state'.users = state.users
          /\ state'.board_users = state.board_users
          /\ DOMAIN state'.boards = DOMAIN state.boards
          /\ \A b \in DOMAIN state.boards :
                \/ /\ ev'.sid \in DOMAIN state.users
                   /\ b = state.users[ev'.sid].board_id
                \/ /\ state'.boards[b].strokes = state.boards[b].strokes
                   /\ state'.boards[b].objects = state.boards[b].objects
                   /\ state'.boards[b].layers = state.boards[b].layers
      ]_vars

\* C31 witness: both boards hold an object with the same id, and an
\* object_update of a participant of one has merged the properties there: the
\* object of the other board has the properties it was added with.
C31_Witness ==
    /\ ev.name = "object_update"
    /\ pre.user # {}
    /\ LET b == state.users[ev.sid].board_id
       IN  /\ Len(state.boards[b].objects) = 1
           /\ state.boards[b].objects[1].id = ev.data.object_id
           /\ state.boards[b].objects[1].properties = DictUpdate(PropsAB, PropsBC)
           /\ \E c \in DOMAIN state.boards \ {b} :
                 /\ Len(state.boards[c].objects) = 1
                 /\ state.boards[c].objects[1].id = ev.data.object_id
                 /\ state.boards[c].objects[1].properties = PropsAB

\* C32: no two strokes stored on a board have the same id.
C32_StrokeIdsUnique ==
    \A b \in DOMAIN state.boards :
        \A i, j \in 1..Len(state.boards[b].strokes) :
            state.boards[b].strokes[i].id = state.boards[b].strokes[j].id => i = j

\* C33: no two objects stored on a board have the same id.
C33_ObjectIdsUnique ==
    \A b \in DOMAIN state.boards :
        \A i, j \in 1..Len(state.boards[b].objects) :
            state.boards[b].objects[i].id = state.boards[b].objects[j].id => i = j

\* C34: a stored stroke that is completed stays completed and keeps its points
\* in every step that leaves it on the board (strokes keep their place in the
\* board's sequence until clear_board empties it).
C34_CompletedStaysCompleted ==
    [][ \A b \in DOMAIN state.boards :
          \A i \in 1..Len(state.boards[b].strokes) :
              ( /\ state.boards[b].strokes[i].completed
                /\ i <= Len(state'.boards[b].strokes) )
              => /\ state'.boards[b].strokes[i].completed
                 /\ state'.boards[b].strokes[i].points = state.boards[b].strokes[i].points
      ]_vars

\* C34 witness: a board holds two strokes with the id of a stroke_update that
\* brought points; the first is completed and has the one point it was
\* completed with, the batch went to the second.
C34_Witness ==
    /\ ev.name = "stroke_update"
    /\ pre.user # {}
    /\ Get(ev.data, "points", <<>>) = <<P2, P3>>
    /\ LET strokes == state.boards[state.users[ev.sid].board_id].strokes
       IN  /\ Len(strokes) = 2
           /\ strokes[1].id = ev.data.stroke_id
           /\ strokes[2].id = ev.data.stroke_id
           /\ strokes[1].completed
           /\ strokes[1].points = <<P1>>
           /\ ~strokes[2].completed
           /\ strokes[2].points = <<P2, P3>>

\* C35: between handlers, for every board the count get_board_user_count
\* returns is the length of the list get_board_users returns.
C35_CountIsLengthOfUsers ==
    \A b \in BoardIds :
        get_board_user_count(state, b) = BagCardinality(get_board_users(state, b))

\* C36: between handlers, the layers of every resident board session are the
\* one default layer the session was seeded with.
C36_LayersAreTheDefaultLayer ==
    \A b \in DOMAIN state.boards : state.boards[b].layers = <<DefaultLayer>>

\* C36 witness: a participant has cleared its board while the other resident
\* board stores a completed stroke; the cleared board has its one layer.
C36_Witness ==
    /\ ev.name = "clear_board"
    /\ pre.user # {}
    /\ LET b == state.users[ev.sid].board_id
       IN  /\ state.boards[b].strokes = <<>>
           /\ state.boards[b].objects = <<>>
           /\ Len(state.boards[b].layers) = 1
           /\ state.boards[b].layers[1].name = "Layer 1"
           /\ \E c \in DOMAIN state.boards \ {b} :
                 /\ Len(state.boards[c].strokes) = 1
                 /\ state.boards[c].strokes[1].completed
                 /\ Len(state.boards[c].layers) = 1

\* C37: the boards that have a session are the boards that have a membership
\* set, before and after every step, and no step removes a board.
C37_BoardsAndMembershipSameKeys ==
    [][ /\ DOMAIN state.boards = DOMAIN state.board_users
        /\ DOMAIN state'.boards = DOMAIN state'.board_users
        /\ DOMAIN state.boards \subseteq DOMAIN state'.boards
      ]_vars

\* C37 witness: the last Participant of a board has left or disconnected
\* while both boards are resident: the board it left has a session and an
\* empty membership set.
C37_Witness ==
    /\ ev.name \in {"leave_board", "disconnect"}
    /\ pre.user # {}
    /\ DOMAIN state.boards = BoardIds
    /\ DOMAIN state.board_users = BoardIds
    /\ \E u \in pre.user :
          /\ state.board_users[u.board_id] = {}
          /\ ParticipantsOf(state, u.board_id) = {}

====
